---- MODULE Spec2Model ----
(***************************************************************************)
(* A model of LuaTableParser.py: the reader (LuaTableReader), the value    *)
(* evaluator and the serializer (LuaTableParser.__parse / __dump) and the  *)
(* facade operations load, dump and __getitem__.                           *)
(*                                                                         *)
(* A text is a sequence of characters; a character is a one-character      *)
(* string, except for the control characters TLA+ cannot write, which are  *)
(* named ("BEL", "BS", "VT", "NUL", "chr<code>").  A raised exception is   *)
(* the err field of an operator's result: "" when nothing was raised, else *)
(* a name for the message of the raise statement (or the Python error      *)
(* class for an error raised by the interpreter itself).                   *)
(***************************************************************************)
EXTENDS Integers, Sequences, FiniteSets, TLC

\* a call of one operator of the model by another: see call, below
RECURSIVE call(_, _)

\* ------------------------------------------------------------ characters

\* what __next() returns past the end of the text
None == "None"

Digit == {"0", "1", "2", "3", "4", "5", "6", "7", "8", "9"}

Letter ==
  {"a", "b", "c", "d", "e", "f", "g", "h", "i", "j", "k", "l", "m",
   "n", "o", "p", "q", "r", "s", "t", "u", "v", "w", "x", "y", "z",
   "A", "B", "C", "D", "E", "F", "G", "H", "I", "J", "K", "L", "M",
   "N", "O", "P", "Q", "R", "S", "T", "U", "V", "W", "X", "Y", "Z"}

Space == {" ", "\t", "\n", "\r", "VT", "\f"}

Quote == {"'", "\""}

isdigit(c) == c \in Digit

isalpha(c) == c \in Letter

isalnum(c) == c \in Letter \cup Digit

isspace(c) == c \in Space

\* ---------------------------------------------------------- exceptions

Raise(e) == [err |-> e, rd |-> [index |-> 0, prevp |-> -1], v |-> <<>>]

Ok(rd, v) == [err |-> "", rd |-> rd, v |-> v]

\* ------------------------------------------------- LuaTableReader: cursor

\* LuaTableReader.__init__
NewReader == [index |-> 0, prevp |-> -1]

\* __next: the character at the cursor (None past the end) ...
at(s, i) == IF i < Len(s) THEN s[i + 1] ELSE None

\* ... and the cursor after it
adv(s, i) == IF i < Len(s) THEN i + 1 ELSE i

\* __swallow_spaces: the cursor at the first non-space character
RECURSIVE swallow_spaces(_, _)
swallow_spaces(s, i) ==
  IF at(s, i) # None /\ isspace(at(s, i))
  THEN swallow_spaces(s, i + 1)
  ELSE i

\* __swallow_line: the cursor after the next newline, or at the end
RECURSIVE swallow_line(_, _)
swallow_line(s, i) ==
  IF at(s, i) # None /\ at(s, i) # "\n"
  THEN swallow_line(s, i + 1)
  ELSE adv(s, i)

\* the loop "while c == '=': cnt += 1; c = next(); if c is None: break" of
\* __try_read_xstring and __do_swallow_comments; c was read, the cursor is i
RECURSIVE eq_run(_, _, _, _)
eq_run(s, c, i, cnt) ==
  IF c = "="
  THEN IF at(s, i) = None
       THEN [c |-> None, index |-> i, cnt |-> cnt + 1]
       ELSE eq_run(s, at(s, i), adv(s, i), cnt + 1)
  ELSE [c |-> c, index |-> i, cnt |-> cnt]

\* the loop "while x is not None: if i == 0: break; if x != '=': break;
\* i -= 1; x = next()" of __read_xstring_aux and __swallow_comments_aux
RECURSIVE close_run(_, _, _, _)
close_run(s, x, idx, i) ==
  IF x # None /\ i # 0 /\ x = "="
  THEN close_run(s, at(s, idx), adv(s, idx), i - 1)
  ELSE [x |-> x, index |-> idx, i |-> i]

\* n copies of '='
RECURSIVE equals(_)
equals(n) == IF n = 0 THEN <<>> ELSE <<"=">> \o equals(n - 1)

\* ------------------------------------- LuaTableReader: comments, strings


\* the loop of __next_string; the cursor is i, ret the text so far
next_string_loop(s, i, mark, ret) ==
  LET c == at(s, i) IN
  IF c = None THEN Raise("UnterminatedString")
  ELSE IF c = mark THEN [err |-> "", index |-> i + 1, v |-> ret \o <<"\"">>]
  ELSE IF c \in Quote THEN call("next_string_loop", <<s, i + 1, mark, ret \o <<"\\", c>>>>)
  ELSE IF c = "\\"
       THEN IF at(s, i + 1) = None
            THEN Raise("TypeError")
            ELSE call("next_string_loop", <<s, i + 2, mark, ret \o <<"\\", at(s, i + 1)>>>>)
       ELSE call("next_string_loop", <<s, i + 1, mark, ret \o <<c>>>>)

\* __next_string: the string at the cursor, requoted with double quotes
next_string(s, rd) ==
  LET m == call("next_clean", <<s, rd>>) IN
  IF m.err # "" THEN Raise(m.err)
  ELSE LET r == call("next_string_loop", <<s, m.rd.index, m.v, <<"\"">>>>) IN
       IF r.err # "" THEN Raise(r.err)
       ELSE Ok([index |-> r.index, prevp |-> m.rd.prevp], r.v)

\* __swallow_comments_aux(n): c was read, the cursor is rd.index
swallow_comments_aux(s, c, rd, n) ==
  IF c = None THEN Ok(rd, TRUE)
  ELSE IF c \in Quote
       THEN LET str == call("next_string", <<s, [rd EXCEPT !.index = rd.index - 1]>>) IN
            IF str.err # "" THEN Raise(str.err)
            ELSE call("swallow_comments_aux", <<s, at(s, str.rd.index),
                   [str.rd EXCEPT !.index = adv(s, str.rd.index)], n>>)
  ELSE IF c = "]"
       THEN LET r == close_run(s, at(s, rd.index), adv(s, rd.index), n) IN
            IF r.x = None \/ (r.i = 0 /\ r.x = "]")
            THEN Ok([rd EXCEPT !.index = r.index], TRUE)
            ELSE IF r.x = "]"
                 THEN call("swallow_comments_aux",
                            <<s, r.x, [rd EXCEPT !.index = r.index], n>>)
                 ELSE call("swallow_comments_aux", <<s, at(s, r.index),
                        [rd EXCEPT !.index = adv(s, r.index)], n>>)
  ELSE call("swallow_comments_aux", <<s, at(s, rd.index),
         [rd EXCEPT !.index = adv(s, rd.index)], n>>)

\* __do_swallow_comments: the cursor is after "--"
do_swallow_comments(s, rd) ==
  LET c == at(s, rd.index)
      i1 == adv(s, rd.index)
  IN IF c # "["
     THEN Ok([rd EXCEPT !.index = swallow_line(s, i1)], TRUE)
     ELSE LET r == eq_run(s, at(s, i1), adv(s, i1), 0) IN
          IF r.c # "["
          THEN Ok([rd EXCEPT !.index = swallow_line(s, r.index)], TRUE)
          ELSE call("swallow_comments_aux", <<s, at(s, r.index),
                 [rd EXCEPT !.index = adv(s, r.index)], r.cnt>>)

\* __try_swallow_comments: v is whether a comment was swallowed. c and x are
\* the characters read, i1 and i2 the cursor after each; a character that
\* was read (not None) is put back by moving the cursor one place down
try_swallow_comments(s, rd) ==
  LET c == at(s, rd.index)
      i1 == adv(s, rd.index)
      x == at(s, i1)
      i2 == adv(s, i1)
  IN IF c = "-"
     THEN IF x = "-"
          THEN call("do_swallow_comments", <<s, [rd EXCEPT !.index = i2]>>)
          ELSE Ok([rd EXCEPT !.index = (IF x # None THEN i2 - 1 ELSE i2) - 1],
                  FALSE)
     ELSE Ok([rd EXCEPT !.index = IF c # None THEN i1 - 1 ELSE i1], FALSE)

\* the loop of next_clean: the cursor is after spaces
next_clean_loop(s, rd) ==
  LET t == call("try_swallow_comments", <<s, rd>>) IN
  IF t.err # "" THEN Raise(t.err)
  ELSE IF t.v
       THEN call("next_clean_loop",
                  <<s, [t.rd EXCEPT !.index = swallow_spaces(s, t.rd.index)]>>)
       ELSE Ok([index |-> adv(s, rd.index), prevp |-> rd.index], at(s, rd.index))

\* next_clean: the next character after spaces and comments
next_clean(s, rd) ==
  call("next_clean_loop", <<s, [rd EXCEPT !.index = swallow_spaces(s, rd.index)]>>)

\* back: the cursor at the character the last next_clean returned
back(rd) ==
  IF rd.prevp # -1
  THEN Ok([rd EXCEPT !.index = rd.prevp], TRUE)
  ELSE Raise("MisusedBack")

\* ------------------------------------------- Utils.str_to_num: numerals

DigitSeq == <<"0", "1", "2", "3", "4", "5", "6", "7", "8", "9">>

digit_val(c) == CHOOSE d \in 0..9 : DigitSeq[d + 1] = c

\* the length of the run of digits of t that starts at position i (from 1)
RECURSIVE digit_run(_, _)
digit_run(t, i) ==
  IF i <= Len(t) /\ isdigit(t[i]) THEN 1 + digit_run(t, i + 1) ELSE 0

\* the digits t[i], ..., t[i+n-1] as numbers
digits_of(t, i, n) == [k \in 1..n |-> digit_val(t[i + k - 1])]

\* the number a sequence of digits writes
RECURSIVE nat_of(_)
nat_of(ds) ==
  IF ds = <<>> THEN 0 ELSE 10 * nat_of(SubSeq(ds, 1, Len(ds) - 1)) + ds[Len(ds)]

\* the digits that write a natural number
RECURSIVE nat_digits(_)
nat_digits(n) ==
  IF n < 10 THEN <<n>> ELSE Append(nat_digits(n \div 10), n % 10)

RECURSIVE strip_leading(_)
strip_leading(ds) ==
  IF ds # <<>> /\ ds[1] = 0 THEN strip_leading(Tail(ds)) ELSE ds

RECURSIVE strip_trailing(_)
strip_trailing(ds) ==
  IF ds # <<>> /\ ds[Len(ds)] = 0
  THEN strip_trailing(SubSeq(ds, 1, Len(ds) - 1))
  ELSE ds

\* digit sequences compared as the decimal fractions 0.a and 0.b
RECURSIVE frac_less(_, _)
frac_less(a, b) ==
  IF b = <<>> THEN FALSE
  ELSE IF a = <<>> THEN strip_leading(b) # <<>>
  ELSE IF a[1] # b[1] THEN a[1] < b[1]
  ELSE frac_less(Tail(a), Tail(b))

\* the parts of a numeral: sign, digits, '.', digits, exponent
numeral(t) ==
  LET sgn == IF Len(t) > 0 /\ t[1] \in {"+", "-"} THEN 1 ELSE 0
      p1 == sgn + 1
      ni == digit_run(t, p1)
      p2 == p1 + ni
      dot == p2 <= Len(t) /\ t[p2] = "."
      p3 == IF dot THEN p2 + 1 ELSE p2
      nf == IF dot THEN digit_run(t, p3) ELSE 0
      p4 == p3 + nf
      hasexp == p4 <= Len(t) /\ t[p4] \in {"e", "E"}
      esgn == hasexp /\ p4 + 1 <= Len(t) /\ t[p4 + 1] \in {"+", "-"}
      p6 == IF esgn THEN p4 + 2 ELSE p4 + 1
      ne == IF hasexp THEN digit_run(t, p6) ELSE 0
      pend == IF hasexp THEN p6 + ne ELSE p4
  IN [neg |-> sgn = 1 /\ t[1] = "-",
      int |-> digits_of(t, p1, ni),
      frac |-> digits_of(t, p3, nf),
      dot |-> dot,
      hasexp |-> hasexp,
      eneg |-> esgn /\ t[p4 + 1] = "-",
      exp |-> IF hasexp THEN digits_of(t, p6, ne) ELSE <<>>,
      whole |-> pend = Len(t) + 1]

\* int(s) accepts: an optional sign and at least one digit
is_int(t) ==
  LET n == call("numeral", <<t>>) IN n.whole /\ n.int # <<>> /\ ~n.dot /\ ~n.hasexp

\* float(s) accepts: a decimal numeral with a digit before or after the point
is_decimal(t) ==
  LET n == call("numeral", <<t>>)
  IN n.whole /\ (n.int # <<>> \/ n.frac # <<>>) /\ (n.hasexp => n.exp # <<>>)

lower(c) ==
  CASE c = "I" -> "i" [] c = "N" -> "n" [] c = "F" -> "f" [] c = "A" -> "a"
    [] c = "T" -> "t" [] c = "Y" -> "y" [] OTHER -> c

\* float(s) accepts: inf, infinity and nan in any case, with an optional sign
float_word(t) ==
  LET sgn == IF Len(t) > 0 /\ t[1] \in {"+", "-"} THEN 1 ELSE 0
      w == [k \in 1..(Len(t) - sgn) |-> lower(t[k + sgn])]
  IN IF w = <<"i", "n", "f">> \/ w = <<"i", "n", "f", "i", "n", "i", "t", "y">>
     THEN "inf"
     ELSE IF w = <<"n", "a", "n">> THEN "nan" ELSE ""

\* a float: zero, a finite d.ddd * 10^exp (digs without leading or trailing
\* zeros), an infinity or a nan
PyFloat(cls, neg, digs, exp) ==
  [kind |-> "float", val |-> [cls |-> cls, neg |-> neg, digs |-> digs, exp |-> exp]]

PyInt(n) == [kind |-> "int", val |-> n]

\* the first digits of the decimal expansion of the double rounding bounds:
\* (DBL_MAX + ulp/2) = 1.797693134862315807...e308 and
\* (the least subnormal)/2 = 2.470328229206232720...e-324
OverflowDigits == <<1, 7, 9, 7, 6, 9, 3, 1, 3, 4, 8, 6, 2, 3, 1, 5, 8, 0, 7>>

UnderflowDigits == <<2, 4, 7, 0, 3, 2, 8, 2, 2, 9, 2, 0, 6, 2, 3, 2, 7, 2, 0>>

\* float(s) of a decimal numeral, as the decimal it rounds from: exact up to
\* the 15 significant digits a double keeps, and not for subnormals
float_of_decimal(t) ==
  LET n == call("numeral", <<t>>)
      all == n.int \o n.frac
      lead == Len(all) - Len(strip_leading(all))
      digs == strip_trailing(strip_leading(all))
      e == (IF n.eneg THEN -1 ELSE 1) * nat_of(n.exp)
      x == Len(n.int) - 1 - lead + e
  IN IF digs = <<>> THEN PyFloat("zero", n.neg, <<>>, 0)
     ELSE IF x > 308 \/ (x = 308 /\ ~frac_less(digs, OverflowDigits))
          THEN PyFloat("inf", n.neg, <<>>, 0)
     ELSE IF x < -324 \/ (x = -324 /\ ~frac_less(UnderflowDigits, digs))
          THEN PyFloat("zero", n.neg, <<>>, 0)
     ELSE PyFloat("fin", n.neg, digs, x)

\* Utils.str_to_num: an int if int(s) accepts, else a float if float(s)
\* accepts, else the exception
str_to_num(t) ==
  IF call("is_int", <<t>>)
  THEN Ok(NewReader,
           PyInt((IF call("numeral", <<t>>).neg THEN -1 ELSE 1)
                 * nat_of(call("numeral", <<t>>).int)))
  ELSE IF call("is_decimal", <<t>>) THEN Ok(NewReader, call("float_of_decimal", <<t>>))
  ELSE IF call("float_word", <<t>>) = "inf"
       THEN Ok(NewReader, PyFloat("inf", t[1] = "-", <<>>, 0))
  ELSE IF call("float_word", <<t>>) = "nan"
       THEN Ok(NewReader, PyFloat("nan", FALSE, <<>>, 0))
  ELSE Raise("NotANumber")

\* ------------------------------------- LuaTableReader: numbers and names

\* __read_digits: the run of digits at cursor i
RECURSIVE read_digits(_, _, _)
read_digits(s, i, ret) ==
  LET c == at(s, i) IN
  IF c = None THEN Raise("AttributeError")
  ELSE IF isdigit(c) THEN read_digits(s, i + 1, ret \o <<c>>)
  ELSE [err |-> "", index |-> i, v |-> ret]

\* the exponent of __next_number: c is 'e' or 'E', the cursor i is after it
next_number_exp(s, i, ret, c) ==
  LET x == at(s, i) IN
  IF x = None THEN Raise("AttributeError")
  ELSE IF isdigit(x)
       THEN LET d == read_digits(s, i, <<>>) IN
            IF d.err # "" THEN Raise(d.err)
            ELSE [err |-> "", index |-> d.index, v |-> ret \o <<c>> \o d.v]
  ELSE IF x \in {"+", "-"}
       THEN LET d == read_digits(s, i + 1, <<>>) IN
            IF d.err # "" THEN Raise(d.err)
            ELSE IF d.v = <<>> THEN Raise("SyntaxErrorNearExpSign")
            ELSE [err |-> "", index |-> d.index, v |-> ret \o <<c, x>> \o d.v]
  ELSE Raise("SyntaxErrorNearExp")

\* the end of __next_number: c was read, the cursor i is after it
next_number_tail(s, i, ret, c) ==
  IF c = None THEN Raise("TypeError")
  ELSE IF c \in {"e", "E"} THEN call("next_number_exp", <<s, i, ret, c>>)
  ELSE [err |-> "", index |-> i - 1, v |-> ret]

\* the fraction of __next_number: c was read, the cursor i is after it
next_number_frac(s, i, ret, c) ==
  IF c = "."
  THEN LET d == read_digits(s, i, <<>>) IN
       IF d.err # "" THEN Raise(d.err)
       ELSE IF (ret = <<>> \/ ret = <<"-">>) /\ d.v = <<>>
            THEN Raise("SyntaxErrorNearDot")
       ELSE call("next_number_tail", <<s, adv(s, d.index), ret \o <<".">> \o d.v,
                             at(s, d.index)>>)
  ELSE call("next_number_tail", <<s, i, ret, c>>)

\* __next_number: the numeral at cursor i, which holds a digit, '.', '+', '-'
next_number(s, i) ==
  LET c == at(s, i) IN
  IF isdigit(c) \/ c \in {"+", "-"}
  THEN LET d == read_digits(s, IF isdigit(c) THEN i ELSE i + 1,
                            IF isdigit(c) THEN <<>> ELSE <<c>>) IN
       IF d.err # "" THEN Raise(d.err)
       ELSE call("next_number_frac", <<s, adv(s, d.index), d.v, at(s, d.index)>>)
  ELSE call("next_number_frac", <<s, i + 1, <<>>, c>>)

\* __next_token: the name at cursor i
RECURSIVE next_token_loop(_, _, _)
next_token_loop(s, i, ret) ==
  LET c == at(s, i) IN
  IF c = None THEN Raise("AttributeError")
  ELSE IF isalnum(c) \/ c = "_" THEN next_token_loop(s, i + 1, ret \o <<c>>)
  ELSE [err |-> "", index |-> i, v |-> ret]

next_token(s, i) == next_token_loop(s, i + 1, <<at(s, i)>>)

\* -------------------------------------- LuaTableReader: long-bracket strings

\* __read_xstring_aux(n): c was read, the cursor is idx, ret the text so far
read_xstring_aux(s, c, idx, n, ret) ==
  IF c = None THEN Raise("UnterminatedXString")
  ELSE IF c = "]"
       THEN LET r == close_run(s, at(s, idx), adv(s, idx), n) IN
            IF r.i = 0 /\ r.x = "]"
            THEN [err |-> "", index |-> r.index, v |-> ret]
            ELSE IF r.x = None THEN Raise("UnterminatedXString")
            ELSE call("read_xstring_aux", <<s, r.x, r.index, n,
                                  ret \o <<"]">> \o equals(n - r.i)>>)
  ELSE call("read_xstring_aux", <<s, at(s, idx), adv(s, idx), n,
                        ret \o (IF c = "\\" THEN <<"\\", "\\">> ELSE <<c>>)>>)

\* a variant of __try_read_xstring that leaves the cursor where the attempt
\* stopped when no long-bracket string opens
try_read_xstring_stay(s, rd) ==
  LET prevp == rd.prevp
      index == rd.index
      i1 == adv(s, index)
  IN IF at(s, index) # "[" THEN Raise("AssertionFailed")
     ELSE LET r == eq_run(s, at(s, i1), adv(s, i1), 0) IN
          IF r.c = "["
          THEN LET x == call("read_xstring_aux",
                             <<s, at(s, r.index), adv(s, r.index), r.cnt, <<>>>>)
               IN IF x.err # "" THEN Raise(x.err)
                  ELSE Ok([rd EXCEPT !.index = x.index],
                          [ok |-> TRUE, text |-> <<"\"">> \o x.v \o <<"\"">>])
          ELSE Ok([index |-> r.index, prevp |-> prevp],
                  [ok |-> FALSE, text |-> <<>>])

\* __try_read_xstring: v.ok is whether a long-bracket string was read, v.text
\* the string, quoted. prevp and index are the reader's fields saved on
\* entry, i1 the cursor after the '[', r the run of '=' after it; the saved
\* fields are stored back when no second '[' follows the run
try_read_xstring(s, rd) ==
  LET prevp == rd.prevp
      index == rd.index
      i1 == adv(s, index)
  IN IF at(s, index) # "[" THEN Raise("AssertionFailed")
     ELSE LET r == eq_run(s, at(s, i1), adv(s, i1), 0) IN
          IF r.c = "["
          THEN LET x == call("read_xstring_aux",
                             <<s, at(s, r.index), adv(s, r.index), r.cnt, <<>>>>)
               IN IF x.err # "" THEN Raise(x.err)
                  ELSE Ok([rd EXCEPT !.index = x.index],
                          [ok |-> TRUE, text |-> <<"\"">> \o x.v \o <<"\"">>])
          ELSE Ok([index |-> index, prevp |-> prevp],
                  [ok |-> FALSE, text |-> <<>>])

\* ---------------------------------------------- LuaTableReader: validity

\* __test_validity_aux
test_validity_aux(s) == \A k \in 1..Len(s) : isalnum(s[k]) \/ s[k] = "_"

\* a variant of __test_validity_of_name that accepts every non-empty name
test_validity_of_name_any(name) == Len(name) # 0

\* __test_validity_of_name
test_validity_of_name(name) ==
  /\ Len(name) # 0
  /\ isalpha(name[1]) \/ name[1] = "_"
  /\ Len(name) > 1 => call("test_validity_aux", <<Tail(name)>>)

\* __test_validity_of_index
test_validity_of_index(index) ==
  LET n == Len(index) IN
  IF n > 1 /\ index[1] = "\"" /\ index[n] = "\"" THEN TRUE
  ELSE IF n > 1 /\ index[1] = "'" /\ index[n] = "'" THEN TRUE
  ELSE call("str_to_num", <<index>>).err = ""

\* ------------------------------- LuaTableReader: tables, fields, expressions

\* expr1 of a field that has no key (None in the source)
NoExpr == <<None>>


\* __next_expr: the text of the expression at the cursor
next_expr(s, rd) ==
  LET a == call("next_clean", <<s, rd>>) IN
  IF a.err # "" THEN Raise(a.err)
  ELSE LET c == a.v
           b == [a.rd EXCEPT !.index = a.rd.index - 1]
       IN IF c = "{"
          THEN LET t == call("next_table", <<s, b>>) IN
               IF t.err # "" THEN Raise(t.err) ELSE Ok(t.rd, t.v.table)
          ELSE IF c = None THEN Raise("TypeError")
          ELSE IF c \in Quote THEN call("next_string", <<s, b>>)
          ELSE IF isdigit(c) \/ c \in {"+", "-", "."}
               THEN LET n == call("next_number", <<s, b.index>>) IN
                    IF n.err # "" THEN Raise(n.err)
                    ELSE Ok([b EXCEPT !.index = n.index], n.v)
          ELSE IF isalpha(c) \/ c = "_"
               THEN LET n == call("next_token", <<s, b.index>>) IN
                    IF n.err # "" THEN Raise(n.err)
                    ELSE Ok([b EXCEPT !.index = n.index], n.v)
          ELSE IF c = "["
               THEN LET x == call("try_read_xstring", <<s, b>>) IN
                    IF x.err # "" THEN Raise(x.err)
                    ELSE IF x.v.ok THEN Ok(x.rd, x.v.text)
                    ELSE Raise("SyntaxErrorNearBracket")
          ELSE Raise("SyntaxErrorNearChar")

\* __next_field after '[' that opens no long-bracket string: the cursor is
\* after the '['
next_field_index(s, rd) ==
  LET index == call("next_expr", <<s, rd>>) IN
  IF index.err # "" THEN Raise(index.err)
  ELSE LET x == call("next_clean", <<s, index.rd>>) IN
       IF x.err # "" THEN Raise(x.err)
       ELSE IF x.v # "]" THEN Raise("InvalidField")
       ELSE IF ~call("test_validity_of_index", <<index.v>>) THEN Raise("InvalidIndex")
       ELSE LET e == call("next_clean", <<s, x.rd>>) IN
            IF e.err # "" THEN Raise(e.err)
            ELSE IF e.v # "=" THEN Raise("InvalidField")
            ELSE LET expr2 == call("next_expr", <<s, e.rd>>) IN
                 IF expr2.err # "" THEN Raise(expr2.err)
                 ELSE Ok(expr2.rd,
                         [text |-> <<"[">> \o index.v \o <<"]", "=", " ">> \o expr2.v,
                          expr1 |-> index.v, expr2 |-> expr2.v])

\* __next_field when the first character is not '[': the cursor is at it
next_field_name(s, rd) ==
  LET expr1 == call("next_expr", <<s, rd>>) IN
  IF expr1.err # "" THEN Raise(expr1.err)
  ELSE LET x == call("next_clean", <<s, expr1.rd>>) IN
       IF x.err # "" THEN Raise(x.err)
       ELSE IF x.v = "="
            THEN IF ~call("test_validity_of_name", <<expr1.v>>) THEN Raise("InvalidIdentifier")
                 ELSE LET expr2 == call("next_expr", <<s, x.rd>>) IN
                      IF expr2.err # "" THEN Raise(expr2.err)
                      ELSE Ok(expr2.rd,
                              [text |-> expr1.v \o <<"=", " ">> \o expr2.v,
                               expr1 |-> expr1.v, expr2 |-> expr2.v])
       ELSE IF x.v # None
            THEN Ok(back(x.rd).rd,
                    [text |-> expr1.v, expr1 |-> NoExpr, expr2 |-> expr1.v])
       ELSE Raise("InvalidField")

\* __next_field up to the field's last expression
next_field_body(s, rd) ==
  LET a == call("next_clean", <<s, rd>>) IN
  IF a.err # "" THEN Raise(a.err)
  ELSE IF a.v = "["
       THEN LET x == call("try_read_xstring", <<s, [a.rd EXCEPT !.index = a.rd.index - 1]>>) IN
            IF x.err # "" THEN Raise(x.err)
            ELSE IF x.v.ok
                 THEN Ok(x.rd, [text |-> x.v.text, expr1 |-> NoExpr,
                                expr2 |-> x.v.text])
                 ELSE call("next_field_index", <<s, [x.rd EXCEPT !.index = x.rd.index + 1]>>)
       ELSE call("next_field_name", <<s, back(a.rd).rd>>)

\* __next_field: v.text is the field's text, v.expr1 and v.expr2 its key
\* (NoExpr when it has none) and its value
next_field(s, rd) ==
  LET f == call("next_field_body", <<s, rd>>) IN
  IF f.err # "" THEN Raise(f.err)
  ELSE LET c == call("next_clean", <<s, f.rd>>) IN
       IF c.err # "" THEN Raise(c.err)
       ELSE IF c.v = None THEN Raise("TypeError")
       ELSE IF c.v \notin {",", ";", "}"} THEN Raise("SyntaxErrorNearExpr")
       ELSE Ok(back(c.rd).rd, f.v)

\* next_table after a field: table and fields hold the field
next_table_sep(s, rd, table, fields) ==
  LET c == call("next_clean", <<s, rd>>) IN
  IF c.err # "" THEN Raise(c.err)
  ELSE IF c.v = None THEN Raise("TypeError")
  ELSE IF c.v \in {",", ";"}
       THEN LET d == call("next_clean", <<s, c.rd>>) IN
            IF d.err # "" THEN Raise(d.err)
            ELSE IF d.v = "}"
                 THEN Ok(d.rd, [table |-> table \o <<"}">>, fields |-> fields])
                 ELSE call("next_table_loop", <<s, back(d.rd).rd, table \o <<",">>, fields>>)
  ELSE IF c.v = "}"
       THEN Ok(c.rd, [table |-> table \o <<"}">>, fields |-> fields])
  ELSE Raise("ExpectedSeparatorOrClose")

\* the loop of next_table: the cursor is where a field or '}' is expected
next_table_loop(s, rd, table, fields) ==
  LET c == call("next_clean", <<s, rd>>) IN
  IF c.err # "" THEN Raise(c.err)
  ELSE IF c.v = None THEN Raise("ExpectedCloseBrace")
  ELSE IF c.v = "}"
       THEN Ok(c.rd, [table |-> table \o <<"}">>, fields |-> fields])
  ELSE LET f == call("next_field", <<s, back(c.rd).rd>>) IN
       IF f.err # "" THEN Raise(f.err)
       ELSE call("next_table_sep", <<s, f.rd, table \o f.v.text,
                           Append(fields, [expr1 |-> f.v.expr1, expr2 |-> f.v.expr2])>>)

\* next_table: v.table is the table's text rebuilt, v.fields its fields
next_table(s, rd) ==
  LET c == call("next_clean", <<s, rd>>) IN
  IF c.err # "" THEN Raise(c.err)
  ELSE IF c.v # "{" THEN Raise("ExpectedOpenBrace")
  ELSE call("next_table_loop", <<s, c.rd, <<"{">>, <<>>>>)

\* ------------------------------------------------------------- values

\* the value tree: None, bool, int, float (above), str, list and dict; a
\* dict is the sequence of its items (key k, value v) in insertion order
Nil == [kind |-> "nil", val |-> 0]

Bool(b) == [kind |-> "bool", val |-> b]

Str(t) == [kind |-> "str", val |-> t]

List(vs) == [kind |-> "list", val |-> vs]

Dict(items) == [kind |-> "dict", val |-> items]

\* a number (a bool is an int in Python) as a float, to compare numbers
as_float(x) ==
  LET n == IF x.kind = "bool" THEN (IF x.val THEN 1 ELSE 0) ELSE x.val IN
  IF x.kind = "float" THEN x.val
  ELSE IF n = 0 THEN PyFloat("zero", FALSE, <<>>, 0).val
  ELSE LET a == IF n < 0 THEN -n ELSE n IN
       PyFloat("fin", n < 0, strip_trailing(nat_digits(a)),
               Len(nat_digits(a)) - 1).val

\* == of two numbers
num_eq(x, y) ==
  LET a == call("as_float", <<x>>)
      b == call("as_float", <<y>>)
  IN IF a.cls = "nan" \/ b.cls = "nan" THEN FALSE
     ELSE IF a.cls = "zero" THEN b.cls = "zero"
     ELSE a = b

IsNum(x) == x.kind \in {"bool", "int", "float"}

\* == of two values (two dicts: the same keys with equal values)
val_eq(x, y) ==
  IF IsNum(x) /\ IsNum(y) THEN call("num_eq", <<x, y>>)
  ELSE IF x.kind # y.kind THEN FALSE
  ELSE IF x.kind = "list"
       THEN /\ Len(x.val) = Len(y.val)
            /\ \A i \in 1..Len(x.val) : call("val_eq", <<x.val[i], y.val[i]>>)
  ELSE IF x.kind = "dict"
       THEN /\ Len(x.val) = Len(y.val)
            /\ \A i \in 1..Len(x.val) : \E j \in 1..Len(y.val) :
                 call("val_eq", <<x.val[i].k, y.val[j].k>>) /\ call("val_eq", <<x.val[i].v, y.val[j].v>>)
  ELSE x = y

\* the place of key k among the items of a dict, 0 when it has none
dict_find(items, k) ==
  IF \E j \in 1..Len(items) : call("val_eq", <<items[j].k, k>>)
  THEN CHOOSE j \in 1..Len(items) : call("val_eq", <<items[j].k, k>>)
  ELSE 0

\* dct[k] = v
dict_set(items, k, v) ==
  LET j == call("dict_find", <<items, k>>) IN
  IF j = 0 THEN Append(items, [k |-> k, v |-> v])
  ELSE [items EXCEPT ![j].v = v]

\* ------------------------------------------- LuaTableParser: evaluation

Printable ==
  <<
    " ", "!", "\"", "#", "$", "%", "&", "'", "(", ")", "*", "+",
    ",", "-", ".", "/", "0", "1", "2", "3", "4", "5", "6", "7",
    "8", "9", ":", ";", "<", "=", ">", "?", "@", "A", "B", "C",
    "D", "E", "F", "G", "H", "I", "J", "K", "L", "M", "N", "O",
    "P", "Q", "R", "S", "T", "U", "V", "W", "X", "Y", "Z", "[",
    "\\", "]", "^", "_", "chr96", "a", "b", "c", "d", "e", "f", "g",
    "h", "i", "j", "k", "l", "m", "n", "o", "p", "q", "r", "s",
    "t", "u", "v", "w", "x", "y", "z", "{", "|", "}", "~"
  >>

\* chr(y) for 0 <= y <= 255
chr(y) ==
  IF y >= 32 /\ y <= 126 THEN Printable[y - 31]
  ELSE CASE y = 0 -> "NUL" [] y = 7 -> "BEL" [] y = 8 -> "BS" [] y = 9 -> "\t"
         [] y = 10 -> "\n" [] y = 11 -> "VT" [] y = 12 -> "\f" [] y = 13 -> "\r"
         [] OTHER -> "chr" \o ToString(y)

\* __eval_esc_seq
eval_esc_seq(c) ==
  CASE c = "a" -> <<"BEL">> [] c = "b" -> <<"BS">> [] c = "f" -> <<"\f">>
    [] c = "n" -> <<"\n">> [] c = "r" -> <<"\r">> [] c = "t" -> <<"\t">>
    [] c = "v" -> <<"VT">>
    [] c \in {"\\", "'", "\"", "[", "]"} -> <<c>>
    [] OTHER -> <<"\\", c>>

\* a variant of __eval_string_aux that takes the whole run of digits as the
\* code instead of at most three
eval_string_aux_run(s, i) ==
  IF isdigit(s[i])
  THEN LET run == digit_run(s, i)
           y == nat_of(digits_of(s, i, run))
       IN IF y > 255 THEN Raise("InvalidEscapeCode")
          ELSE [err |-> "", index |-> i + run, v |-> <<chr(y)>>]
  ELSE [err |-> "", index |-> i + 1, v |-> eval_esc_seq(s[i])]

\* __eval_string_aux: the escape whose first character is s[i] (i from 1);
\* v is its text, index the place after it
eval_string_aux(s, i) ==
  IF isdigit(s[i])
  THEN LET run == digit_run(s, i)
           m == IF run < 3 THEN run ELSE 3
           y == nat_of(digits_of(s, i, m))
       IN IF y > 255 THEN Raise("InvalidEscapeCode")
          ELSE [err |-> "", index |-> i + m, v |-> <<chr(y)>>]
  ELSE [err |-> "", index |-> i + 1, v |-> eval_esc_seq(s[i])]

\* __eval_string: the text of a string without its quotes, escapes resolved
eval_string_loop(s, i, ret) ==
  IF i > Len(s) THEN Ok(NewReader, ret)
  ELSE IF s[i] = "\\"
       THEN IF i + 1 <= Len(s)
            THEN LET t == call("eval_string_aux", <<s, i + 1>>) IN
                 IF t.err # "" THEN Raise(t.err)
                 ELSE call("eval_string_loop", <<s, t.index, ret \o t.v>>)
            ELSE Ok(NewReader, ret \o <<"\\">>)
  ELSE call("eval_string_loop", <<s, i + 1, ret \o <<s[i]>>>>)

eval_string(s) == call("eval_string_loop", <<s, 1, <<>>>>)

\* s[1:n-1]
inner(s) == SubSeq(s, 2, Len(s) - 1)

\* __eval_index
eval_index(index) ==
  LET n == Len(index) IN
  IF n > 1 /\ index[1] = "\"" /\ index[n] = "\""
  THEN LET t == call("eval_string", <<inner(index)>>) IN
       IF t.err # "" THEN Raise(t.err) ELSE Ok(NewReader, Str(t.v))
  ELSE IF n > 1 /\ index[1] = "'" /\ index[n] = "'"
  THEN LET t == call("eval_string", <<inner(index)>>) IN
       IF t.err # "" THEN Raise(t.err) ELSE Ok(NewReader, Str(t.v))
  ELSE LET x == call("str_to_num", <<index>>) IN
       IF x.err # "" THEN Ok(NewReader, Str(index)) ELSE x

\* a variant of the loop of __merge_result in which a key already in dct
\* keeps its value
RECURSIVE merge_loop_keep(_, _, _)
merge_loop_keep(lst, dct, i) ==
  IF i > Len(lst) THEN dct
  ELSE merge_loop_keep(lst,
         IF lst[i] # Nil /\ call("dict_find", <<dct, PyInt(i)>>) = 0
         THEN call("dict_set", <<dct, PyInt(i), lst[i]>>)
         ELSE dct,
         i + 1)

\* the loop of __merge_result, from element i
merge_loop(lst, dct, i) ==
  IF i > Len(lst) THEN dct
  ELSE call("merge_loop",
            <<lst,
              IF lst[i] # Nil
              THEN call("dict_set", <<dct, PyInt(i), lst[i]>>)
              ELSE dct,
              i + 1>>)

\* a variant of __merge_result that tests lst before dct, so that no
\* positional value gives a dict
merge_result_keyed(lst, dct) ==
  IF Len(lst) = 0 THEN Dict(dct)
  ELSE IF Len(dct) = 0 THEN List(lst)
  ELSE Dict(call("merge_loop", <<lst, dct, 1>>))

\* __merge_result
merge_result(lst, dct) ==
  IF Len(dct) = 0 THEN List(lst)
  ELSE IF Len(lst) = 0 THEN Dict(dct)
  ELSE Dict(call("merge_loop", <<lst, dct, 1>>))


\* __eval_expr
eval_expr(expr) ==
  LET n == Len(expr) IN
  IF expr = <<"n", "i", "l">> THEN Ok(NewReader, Nil)
  ELSE IF expr = <<"t", "r", "u", "e">> THEN Ok(NewReader, Bool(TRUE))
  ELSE IF expr = <<"f", "a", "l", "s", "e">> THEN Ok(NewReader, Bool(FALSE))
  ELSE IF n > 0 /\ expr[1] = "{" THEN call("parse", <<expr>>)
  ELSE IF n > 1 /\ expr[1] \in Quote /\ expr[n] \in Quote /\ expr[1] = expr[n]
       THEN LET t == call("eval_string", <<inner(expr)>>) IN
            IF t.err # "" THEN Raise(t.err) ELSE Ok(NewReader, Str(t.v))
  ELSE LET x == call("str_to_num", <<expr>>) IN
       IF x.err # "" THEN Ok(NewReader, Nil) ELSE x

\* __parse_field: v.k is the key (NoExpr for None), v.v the value
parse_field(field) ==
  IF field.expr1 = NoExpr
  THEN LET v == call("eval_expr", <<field.expr2>>) IN
       IF v.err # "" THEN Raise(v.err)
       ELSE Ok(NewReader, [keyed |-> FALSE, k |-> Nil, v |-> v.v])
  ELSE LET k == call("eval_index", <<field.expr1>>) IN
       IF k.err # "" THEN Raise(k.err)
       ELSE LET v == call("eval_expr", <<field.expr2>>) IN
            IF v.err # "" THEN Raise(v.err)
            ELSE Ok(NewReader, [keyed |-> TRUE, k |-> k.v, v |-> v.v])

\* the loop of __parse over the fields, from field i
parse_fields(fields, i, lst, dct) ==
  IF i > Len(fields) THEN Ok(NewReader, call("merge_result", <<lst, dct>>))
  ELSE LET f == call("parse_field", <<fields[i]>>) IN
       IF f.err # "" THEN Raise(f.err)
       ELSE IF f.v.keyed
            THEN call("parse_fields", <<fields, i + 1, lst,
                              IF f.v.v # Nil THEN call("dict_set", <<dct, f.v.k, f.v.v>>) ELSE dct>>)
            ELSE call("parse_fields", <<fields, i + 1, Append(lst, f.v.v), dct>>)

\* __parse: the value tree of the first table of s
parse(s) ==
  LET t == call("next_table", <<s, NewReader>>) IN
  IF t.err # "" THEN Raise(t.err)
  ELSE call("parse_fields", <<t.v.fields, 1, <<>>, <<>>>>)

\* ------------------------------------------------ str() of a number

to_chars(ds) == [k \in 1..Len(ds) |-> DigitSeq[ds[k] + 1]]

RECURSIVE zeros(_)
zeros(n) == IF n <= 0 THEN <<>> ELSE <<"0">> \o zeros(n - 1)

\* str(n) of an int
str_int(n) ==
  IF n < 0 THEN <<"-">> \o to_chars(nat_digits(-n)) ELSE to_chars(nat_digits(n))

\* a digit sequence plus one in its last place (one digit longer on carry)
RECURSIVE inc_digits(_)
inc_digits(ds) ==
  IF ds = <<>> THEN <<1>>
  ELSE IF ds[Len(ds)] < 9 THEN [ds EXCEPT ![Len(ds)] = ds[Len(ds)] + 1]
  ELSE Append(inc_digits(SubSeq(ds, 1, Len(ds) - 1)), 0)

\* the digits and exponent of a finite float rounded to 12 significant
\* digits, as '%.12g' rounds
round12(f) ==
  IF Len(f.digs) <= 12 THEN f
  ELSE LET head == SubSeq(f.digs, 1, 12)
           up == IF f.digs[13] >= 5 THEN inc_digits(head) ELSE head
       IN IF Len(up) = 13
          THEN [f EXCEPT !.digs = <<1>>, !.exp = f.exp + 1]
          ELSE [f EXCEPT !.digs = strip_trailing(up)]

\* str(x) of a float (Python 2: repr of the float at 12 significant digits)
str_float(x) ==
  LET f == call("round12", <<x>>)
      sign == IF x.neg THEN <<"-">> ELSE <<>>
      k == Len(f.digs)
      d == to_chars(f.digs)
      ax == IF f.exp < 0 THEN -f.exp ELSE f.exp
  IN IF x.cls = "nan" THEN <<"n", "a", "n">>
     ELSE IF x.cls = "inf" THEN sign \o <<"i", "n", "f">>
     ELSE IF x.cls = "zero" THEN sign \o <<"0", ".", "0">>
     ELSE IF f.exp < -4 \/ f.exp >= 12
          THEN sign \o <<d[1]>>
               \o (IF k > 1 THEN <<".">> \o SubSeq(d, 2, k) ELSE <<>>)
               \o <<"e", IF f.exp < 0 THEN "-" ELSE "+">>
               \o (IF ax < 10 THEN <<"0">> ELSE <<>>) \o to_chars(nat_digits(ax))
     ELSE IF f.exp < 0
          THEN sign \o <<"0", ".">> \o zeros(-f.exp - 1) \o d
     ELSE IF k <= f.exp + 1
          THEN sign \o d \o zeros(f.exp + 1 - k) \o <<".", "0">>
     ELSE sign \o SubSeq(d, 1, f.exp + 1) \o <<".">> \o SubSeq(d, f.exp + 2, k)

\* str(v) of an int or a float
str_num(v) ==
  IF v.kind = "int" THEN call("str_int", <<v.val>>)
  ELSE call("str_float", <<v.val>>)

\* ---------------------------------------------- LuaTableParser: dumping

\* __dump_char
dump_char(c) ==
  CASE c = "BEL" -> <<"\\", "a">> [] c = "BS" -> <<"\\", "b">>
    [] c = "\f" -> <<"\\", "f">> [] c = "\n" -> <<"\\", "n">>
    [] c = "\r" -> <<"\\", "r">> [] c = "\t" -> <<"\\", "t">>
    [] c = "VT" -> <<"\\", "v">>
    [] c \in {"\\", "'", "\"", "[", "]"} -> <<"\\", c>>
    [] OTHER -> <<c>>

\* __dump_string
RECURSIVE dump_chars(_)
dump_chars(s) == IF s = <<>> THEN <<>> ELSE dump_char(Head(s)) \o dump_chars(Tail(s))

dump_string(s) == <<"\"">> \o dump_chars(s) \o <<"\"">>

\* __indent
RECURSIVE indent_text(_)
indent_text(n) == IF n <= 0 THEN <<>> ELSE <<" ">> \o indent_text(n - 1)

\* __dump_index
dump_index(index) ==
  IF index.kind \in {"int", "float"} THEN <<"[">> \o call("str_num", <<index>>) \o <<"]">>
  ELSE <<"[">> \o call("dump_string", <<index.val>>) \o <<"]">>


\* __dump_value
dump_value(v, indent_factor, indent) ==
  IF v.kind = "bool"
  THEN (IF v.val THEN <<"t", "r", "u", "e">> ELSE <<"f", "a", "l", "s", "e">>)
  ELSE IF v.kind \in {"int", "float"} THEN call("str_num", <<v>>)
  ELSE IF v.kind = "str" THEN call("dump_string", <<v.val>>)
  ELSE IF v.kind = "list" THEN call("dump_list", <<v.val>>)
  ELSE IF v.kind = "dict" THEN call("dump_aux", <<v.val, indent_factor, indent>>)
  ELSE <<"n", "i", "l">>

\* the loop of __dump_list, from element i
dump_list_loop(lst, i) ==
  IF i > Len(lst) THEN <<>>
  ELSE (IF i > 1 THEN <<",">> ELSE <<>>) \o call("dump_value", <<lst[i], 0, 0>>)
       \o call("dump_list_loop", <<lst, i + 1>>)

\* __dump_list
dump_list(lst) == <<"{">> \o call("dump_list_loop", <<lst, 1>>) \o <<"}">>

\* one item of __dump_aux: index, '=', a space when indenting, value
dump_item(item, indent_factor, indent) ==
  call("dump_index", <<item.k>>) \o <<"=">> \o (IF indent_factor > 0 THEN <<" ">> ELSE <<>>)
  \o call("dump_value", <<item.v, indent_factor, indent>>)

\* the loop of __dump_aux over the keys, from item i; the order of keys()
\* is taken to be the order of insertion
dump_aux_loop(d, i, indent_factor, new_indent) ==
  IF i > Len(d) THEN <<>>
  ELSE (IF i > 1 THEN <<",">> ELSE <<>>)
       \o (IF indent_factor > 0 THEN <<"\n">> ELSE <<>>)
       \o indent_text(new_indent)
       \o call("dump_item", <<d[i], indent_factor, new_indent>>)
       \o call("dump_aux_loop", <<d, i + 1, indent_factor, new_indent>>)

\* __dump_aux
dump_aux(d, indent_factor, indent) ==
  IF Len(d) = 1
  THEN <<"{">> \o call("dump_item", <<d[1], indent_factor, indent>>) \o <<"}">>
  ELSE IF Len(d) # 0
       THEN <<"{">> \o call("dump_aux_loop", <<d, 1, indent_factor, indent + indent_factor>>)
            \o (IF indent_factor > 0 THEN <<"\n">> ELSE <<>>)
            \o indent_text(indent) \o <<"}">>
  ELSE <<"{", "}">>

\* __dump
dump(t) ==
  IF t.kind = "list" THEN call("dump_list", <<t.val>>)
  ELSE call("dump_aux", <<t.val, 4, 0>>)

\* ---------------------------------------------- LuaTableParser: facade

\* LuaTableParser.__init__: the stored tree is an empty dict
EmptyDict == Dict(<<>>)

\* a variant of load that empties the stored tree when parsing fails
load_reset(tbl, s) ==
  LET r == call("parse", <<s>>) IN
  [err |-> r.err, table |-> IF r.err = "" THEN r.v ELSE List(<<>>)]

\* load: the exception raised ("" for none) and the stored tree afterwards
load(tbl, s) ==
  LET r == call("parse", <<s>>) IN
  [err |-> r.err, table |-> IF r.err = "" THEN r.v ELSE tbl]

\* a variant of __getitem__ that reads a list from 0
getitem_from0(tbl, it) ==
  IF tbl.kind = "list"
  THEN IF it.kind = "str" \/ it.val < 0 \/ it.val >= Len(tbl.val)
       THEN [err |-> "IndexError", v |-> Nil]
       ELSE [err |-> "", v |-> tbl.val[it.val + 1]]
  ELSE IF call("dict_find", <<tbl.val, it>>) = 0 THEN [err |-> "KeyError", v |-> Nil]
       ELSE [err |-> "", v |-> tbl.val[call("dict_find", <<tbl.val, it>>)].v]

\* __getitem__: a list is read from 1 (in Python 2 a str compares greater
\* than any int, so a str index is out of range); a dict is looked up
getitem(tbl, it) ==
  IF tbl.kind = "list"
  THEN IF it.kind = "str" \/ it.val < 1 \/ it.val > Len(tbl.val)
       THEN [err |-> "IndexError", v |-> Nil]
       ELSE [err |-> "", v |-> tbl.val[it.val]]
  ELSE IF call("dict_find", <<tbl.val, it>>) = 0 THEN [err |-> "KeyError", v |-> Nil]
       ELSE [err |-> "", v |-> tbl.val[call("dict_find", <<tbl.val, it>>)].v]

\* ------------------------------------------------------------- calls

\* a call of f with the arguments a
call(f, a) ==
  CASE f = "next_string_loop" -> next_string_loop(a[1], a[2], a[3], a[4])
    [] f = "next_string" -> next_string(a[1], a[2])
    [] f = "swallow_comments_aux" -> swallow_comments_aux(a[1], a[2], a[3], a[4])
    [] f = "do_swallow_comments" -> do_swallow_comments(a[1], a[2])
    [] f = "try_swallow_comments" -> try_swallow_comments(a[1], a[2])
    [] f = "next_clean_loop" -> next_clean_loop(a[1], a[2])
    [] f = "next_clean" -> next_clean(a[1], a[2])
    [] f = "numeral" -> numeral(a[1])
    [] f = "is_int" -> is_int(a[1])
    [] f = "is_decimal" -> is_decimal(a[1])
    [] f = "float_word" -> float_word(a[1])
    [] f = "float_of_decimal" -> float_of_decimal(a[1])
    [] f = "str_to_num" -> str_to_num(a[1])
    [] f = "next_number_exp" -> next_number_exp(a[1], a[2], a[3], a[4])
    [] f = "next_number_tail" -> next_number_tail(a[1], a[2], a[3], a[4])
    [] f = "next_number_frac" -> next_number_frac(a[1], a[2], a[3], a[4])
    [] f = "next_number" -> next_number(a[1], a[2])
    [] f = "next_token" -> next_token(a[1], a[2])
    [] f = "read_xstring_aux" -> read_xstring_aux(a[1], a[2], a[3], a[4], a[5])
    [] f = "try_read_xstring" -> try_read_xstring(a[1], a[2])
    [] f = "test_validity_aux" -> test_validity_aux(a[1])
    [] f = "test_validity_of_name" -> test_validity_of_name(a[1])
    [] f = "test_validity_of_index" -> test_validity_of_index(a[1])
    [] f = "next_expr" -> next_expr(a[1], a[2])
    [] f = "next_field_index" -> next_field_index(a[1], a[2])
    [] f = "next_field_name" -> next_field_name(a[1], a[2])
    [] f = "next_field_body" -> next_field_body(a[1], a[2])
    [] f = "next_field" -> next_field(a[1], a[2])
    [] f = "next_table_sep" -> next_table_sep(a[1], a[2], a[3], a[4])
    [] f = "next_table_loop" -> next_table_loop(a[1], a[2], a[3], a[4])
    [] f = "next_table" -> next_table(a[1], a[2])
    [] f = "as_float" -> as_float(a[1])
    [] f = "num_eq" -> num_eq(a[1], a[2])
    [] f = "val_eq" -> val_eq(a[1], a[2])
    [] f = "dict_find" -> dict_find(a[1], a[2])
    [] f = "dict_set" -> dict_set(a[1], a[2], a[3])
    [] f = "eval_string_aux" -> eval_string_aux(a[1], a[2])
    [] f = "eval_string_loop" -> eval_string_loop(a[1], a[2], a[3])
    [] f = "eval_string" -> eval_string(a[1])
    [] f = "eval_index" -> eval_index(a[1])
    [] f = "merge_loop" -> merge_loop(a[1], a[2], a[3])
    [] f = "merge_result" -> merge_result(a[1], a[2])
    [] f = "eval_expr" -> eval_expr(a[1])
    [] f = "parse_field" -> parse_field(a[1])
    [] f = "parse_fields" -> parse_fields(a[1], a[2], a[3], a[4])
    [] f = "parse" -> parse(a[1])
    [] f = "str_int" -> str_int(a[1])
    [] f = "round12" -> round12(a[1])
    [] f = "str_float" -> str_float(a[1])
    [] f = "str_num" -> str_num(a[1])
    [] f = "dump_string" -> dump_string(a[1])
    [] f = "dump_index" -> dump_index(a[1])
    [] f = "dump_value" -> dump_value(a[1], a[2], a[3])
    [] f = "dump_list_loop" -> dump_list_loop(a[1], a[2])
    [] f = "dump_list" -> dump_list(a[1])
    [] f = "dump_item" -> dump_item(a[1], a[2], a[3])
    [] f = "dump_aux_loop" -> dump_aux_loop(a[1], a[2], a[3], a[4])
    [] f = "dump_aux" -> dump_aux(a[1], a[2], a[3])
    [] f = "dump" -> dump(a[1])
    [] f = "load" -> load(a[1], a[2])
    [] f = "getitem" -> getitem(a[1], a[2])

\* ------------------------------------------------------ the state machine

VARIABLES
  table,     \* the parser's stored tree (LuaTableParser.__table)
  text,      \* the argument of the last load
  op,        \* the last operation: "new", "load", "dump", "reload", "getitem",
             \* or the reader's last step
  err,       \* the exception the last operation raised, "" for none
  item,      \* the argument of the last __getitem__
  got,       \* what the last __getitem__ returned
  dumped,    \* what the last dump returned
  old,       \* the stored tree before the last load
  lastGood,  \* the argument of the last load that raised nothing
  ref,       \* what the text of a generated input was built from
  reader,    \* a LuaTableReader on text: its __index and __prevp
  matched    \* what the reader's last attempt (try_...) returned

vars ==
  <<table, text, op, err, item, got, dumped, old, lastGood, ref, reader,
    matched>>

\* no load has succeeded yet
NoText == <<None>>

\* a parser just constructed, and a reader just constructed on text
Fresh ==
  /\ table = EmptyDict
  /\ op = "new"
  /\ err = ""
  /\ item = Nil
  /\ got = Nil
  /\ dumped = <<>>
  /\ old = EmptyDict
  /\ lastGood = NoText
  /\ reader = NewReader
  /\ matched = FALSE

\* p.load(s)
LoadAs(s, name) ==
  LET r == call("load", <<table, s>>) IN
  /\ table' = r.table
  /\ err' = r.err
  /\ text' = s
  /\ op' = name
  /\ old' = table
  /\ lastGood' = IF r.err = "" THEN s ELSE lastGood
  /\ UNCHANGED <<item, got, dumped, ref, reader, matched>>

\* p.dump()
DumpAs(name) ==
  /\ dumped' = call("dump", <<table>>)
  /\ op' = name
  /\ err' = ""
  /\ UNCHANGED <<table, text, item, got, old, lastGood, ref, reader, matched>>

\* p[it]
GetItemOf(it) ==
  LET r == call("getitem", <<table, it>>) IN
  /\ got' = r.v
  /\ err' = r.err
  /\ item' = it
  /\ op' = "getitem"
  /\ UNCHANGED <<table, text, dumped, old, lastGood, ref, reader, matched>>

\* ------------------------------------ Spec: one parser, any calls in any order

\* the texts loaded: tables of Test.py (shortened) and texts load rejects
LoadTexts ==
  {<<"{", "}">>,
   <<"{", "x", "=", "0", ",", "[", "3", "]", "=", "2", "}">>,
   <<"{", "n", "i", "l", ",", "0", ",", "n", "i", "l", ",", "1", "}">>,
   <<"{", "{", "1", "}", ",", "\"", "t", "w", "o", "\"", "}">>,
   <<"{">>,
   <<"{", "1", " ", "2", "}">>,
   <<"{", "\"", "\\", "2", "5", "6", "\"", "}">>}

\* the greatest index read
MaxItem == 5

Items == {PyInt(i) : i \in 0..MaxItem} \cup {Str(<<"x">>), Str(<<"y">>)}

Load == \E s \in LoadTexts : LoadAs(s, "load")

Dump == DumpAs("dump")

GetItem == \E it \in Items : GetItemOf(it)

Init == Fresh /\ text = <<>> /\ ref = <<>>

Next == Load \/ Dump \/ GetItem

Spec == Init /\ [][Next]_vars

\* --------------------------- one parser, one generated input: load it, dump
\* the tree, load the dump

LoadGiven == op = "new" /\ LoadAs(text, "load")

DumpLoaded == op = "load" /\ err = "" /\ DumpAs("dump")

Reload == op = "dump" /\ LoadAs(dumped, "reload")

NextOnce == LoadGiven \/ DumpLoaded \/ Reload

\* ------------------------------------------------------------------ C1

\* the tree of the last load that raised nothing
TreeOf(t) == IF t = NoText THEN EmptyDict ELSE call("parse", <<t>>).v

\* C1: after any sequence of loads the stored tree is the tree of the most
\* recent load that raised nothing (the initial empty tree when there is
\* none), a load that raised left the tree as it was, and dump returns the
\* serialization of that tree.
C1_LoadKeepsOrReplaces ==
  /\ table = TreeOf(lastGood)
  /\ (op = "load" /\ err # "") => table = old
  /\ op = "dump" => dumped = call("dump", <<TreeOf(lastGood)>>)

\* a load that raised after a load that stored a non-empty tree, then dump
C1_Witness ==
  /\ op = "dump"
  /\ text = <<"{", "1", " ", "2", "}">>
  /\ lastGood = <<"{", "n", "i", "l", ",", "0", ",", "n", "i", "l", ",", "1", "}">>
  /\ dumped = lastGood

\* ------------------------------------------- SpecFields: tables of fields

\* a field as written (text), whether it has a key, and the values its key
\* and its value expression write
FieldPool ==
  {[text |-> <<"1">>, keyed |-> FALSE, k |-> Nil, v |-> PyInt(1)],
   [text |-> <<"n", "i", "l">>, keyed |-> FALSE, k |-> Nil, v |-> Nil],
   [text |-> <<"\"", "b", "\"">>, keyed |-> FALSE, k |-> Nil, v |-> Str(<<"b">>)],
   [text |-> <<"x", "=", "2">>, keyed |-> TRUE, k |-> Str(<<"x">>), v |-> PyInt(2)],
   [text |-> <<"y", "=", "n", "i", "l">>, keyed |-> TRUE, k |-> Str(<<"y">>), v |-> Nil],
   [text |-> <<"[", "1", "]", "=", "\"", "a", "\"">>, keyed |-> TRUE,
    k |-> PyInt(1), v |-> Str(<<"a">>)],
   [text |-> <<"[", "2", "]", "=", "n", "i", "l">>, keyed |-> TRUE,
    k |-> PyInt(2), v |-> Nil]}

\* the most fields of a generated table
MaxFields == 3

FieldLists == UNION {[1..n -> FieldPool] : n \in 0..MaxFields}

\* the fields' texts, separated by commas
RECURSIVE JoinFields(_)
JoinFields(fs) ==
  IF fs = <<>> THEN <<>>
  ELSE IF Len(fs) = 1 THEN fs[1].text
  ELSE fs[1].text \o <<",">> \o JoinFields(Tail(fs))

TableText(fs) == <<"{">> \o JoinFields(fs) \o <<"}">>

InitFields == Fresh /\ \E fs \in FieldLists : ref = fs /\ text = TableText(fs)

SpecFields == InitFields /\ [][LoadGiven]_vars

\* the fields without a key, in field order
RECURSIVE Keyless(_)
Keyless(fs) ==
  IF fs = <<>> THEN <<>>
  ELSE IF fs[1].keyed THEN Keyless(Tail(fs))
  ELSE <<fs[1]>> \o Keyless(Tail(fs))

\* the values of a sequence of fields
ValuesOf(fs) == [i \in 1..Len(fs) |-> fs[i].v]

\* what a Table holds under key k (Nil when it does not have the key)
Lookup(tbl, k) ==
  IF \E j \in 1..Len(tbl.val) : tbl.val[j].k = k
  THEN tbl.val[CHOOSE j \in 1..Len(tbl.val) : tbl.val[j].k = k].v
  ELSE Nil

\* the keys a generated table can hold
FieldKeys == {f.k : f \in {g \in FieldPool : g.keyed}} \cup {PyInt(j) : j \in 1..MaxFields}

\* the value written with explicit key k (Nil when there is none)
ExplicitAt(fs, k) ==
  IF \E i \in 1..Len(fs) : fs[i].keyed /\ fs[i].k = k
  THEN fs[CHOOSE i \in 1..Len(fs) : fs[i].keyed /\ fs[i].k = k].v
  ELSE Nil

\* the value of the keyless field assigned key k (Nil when there is none)
PositionalAt(fs, k) ==
  IF k.kind = "int" /\ k.val \in 1..Len(Keyless(fs)) THEN Keyless(fs)[k.val].v ELSE Nil

\* ------------------------------------- SpecRoundTrip: load, dump, load again

\* field texts: nil, numbers, a string of a quote, a bracket, a backslash and
\* a newline, keyed fields, nested tables, and a numeral beyond the doubles
RoundTripPool ==
  {<<"n", "i", "l">>,
   <<"1">>,
   <<"0", ".", "5">>,
   <<"t", "r", "u", "e">>,
   <<"\"", "a", "\\", "\"", "]", "\\", "\\", "\\", "n", "\"">>,
   <<"x", "=", "1">>,
   <<"[", "2", "]", "=", "'", "b", "'">>,
   <<"{", "n", "i", "l", ",", "1", "}">>,
   <<"{", "k", "=", "{", "1", "}", ",", "7", "}">>,
   <<"-", "1", "e", "9", "9", "9">>}

\* the most fields of a table that is dumped and loaded again
MaxRoundTripFields == 2

RoundTripLists ==
  UNION {[1..n -> {[text |-> t] : t \in RoundTripPool}] : n \in 0..MaxRoundTripFields}

InitRoundTrip == Fresh /\ \E fs \in RoundTripLists : ref = fs /\ text = TableText(fs)

SpecRoundTrip == InitRoundTrip /\ [][NextOnce]_vars

\* ------------------------------------------------------------------ C2

\* C2: loading the dump of a loaded tree raises nothing and stores a tree
\* equal to the one dumped (old is the tree that was stored, and dumped,
\* before the dump was loaded).
C2_RoundTrip ==
  op = "reload" => (err = "" /\ call("val_eq", <<table, old>>))

\* ------------------------------------------------------------------ C3

\* C3 as stated: the shape depends only on which fields carry a key: no
\* keyed field gives a Sequence, at least one keyed field gives a Table,
\* whatever the fields' values are.
C3_ShapeByKeys ==
  op = "load" =>
    /\ err = ""
    /\ IF \E i \in 1..Len(ref) : ref[i].keyed
       THEN table.kind = "dict"
       ELSE table.kind = "list"

\* C3: parse yields a Table exactly when some keyed field has a value other
\* than nil; otherwise (no keyed field, or nil in every keyed field) it
\* yields the Sequence of the keyless fields' values, in field order.
C3_ShapeByKeyedValues ==
  op = "load" =>
    /\ err = ""
    /\ IF \E i \in 1..Len(ref) : ref[i].keyed /\ ref[i].v # Nil
       THEN table.kind = "dict"
       ELSE table = List(ValuesOf(Keyless(ref)))

\* {y=nil,1} is the Sequence [1]
C3_Witness ==
  /\ op = "load"
  /\ text = <<"{", "y", "=", "n", "i", "l", ",", "1", "}">>
  /\ table = List(<<PyInt(1)>>)

\* ------------------------------------------------------------------ C4

\* C4 as stated: in a Table from keyed and keyless fields, an explicit key
\* holds the value written with it, and the i-th keyless field is under key
\* i when no explicit key equals i.
C4_ExplicitKeysWin ==
  (op = "load" /\ err = "" /\ table.kind = "dict" /\ Keyless(ref) # <<>>) =>
    \A k \in FieldKeys :
      Lookup(table, k) =
        IF ExplicitAt(ref, k) # Nil THEN ExplicitAt(ref, k) ELSE PositionalAt(ref, k)

\* C4: in a Table from keyed and keyless fields, the i-th keyless field is
\* under key i unless its value is nil, also when an explicit key equals i;
\* an explicit key holds the value written with it only when no keyless
\* field with a value other than nil is assigned that key.
C4_PositionalValuesWin ==
  (op = "load" /\ err = "" /\ table.kind = "dict" /\ Keyless(ref) # <<>>) =>
    /\ \A k \in FieldKeys :
         Lookup(table, k) =
           IF PositionalAt(ref, k) # Nil THEN PositionalAt(ref, k) ELSE ExplicitAt(ref, k)
    /\ \A j \in 1..Len(table.val) : table.val[j].k \in FieldKeys

\* {[1]="a","b"} is the Table {1: "b"}
C4_Witness ==
  /\ op = "load"
  /\ text = <<"{", "[", "1", "]", "=", "\"", "a", "\"", ",", "\"", "b", "\"", "}">>
  /\ table = Dict(<<[k |-> PyInt(1), v |-> Str(<<"b">>)]>>)

\* ------------------------------------------------------------------ C5

\* C5: on a stored Sequence of length n, p[i] is the i-th field's value for
\* 1 <= i <= n and IndexOutOfRange for i < 1 or i > n; on a stored Table,
\* p[k] is the value stored under k, and KeyNotFound when k is absent.
C5_IndexedRead ==
  op = "getitem" =>
    IF table.kind = "list"
    THEN item.kind = "int" =>
           IF 1 <= item.val /\ item.val <= Len(table.val)
           THEN err = "" /\ got = table.val[item.val]
           ELSE err = "IndexError"
    ELSE IF \E j \in 1..Len(table.val) : call("val_eq", <<table.val[j].k, item>>)
         THEN err = "" /\ \E j \in 1..Len(table.val) :
                call("val_eq", <<table.val[j].k, item>>) /\ got = table.val[j].v
         ELSE err = "KeyError"

\* {nil,0,nil,1} has length 4 and p[4] = 1
C5_Witness ==
  /\ op = "getitem"
  /\ table = List(<<Nil, PyInt(0), Nil, PyInt(1)>>)
  /\ item = PyInt(4)
  /\ err = ""
  /\ got = PyInt(1)

\* ------------------------------------------------------ long brackets

\* the texts written with at most n characters of A
Words(A, n) == UNION {[1..k -> A] : k \in 0..n}

\* '[' n '=' '[' and ']' n '=' ']'
Opener(n) == <<"[">> \o [j \in 1..n |-> "="] \o <<"[">>

Closer(n) == <<"]">> \o [j \in 1..n |-> "="] \o <<"]">>

\* a closer of level n starts at t[i]
IsCloserAt(t, i, n) ==
  /\ i + n + 1 <= Len(t)
  /\ t[i] = "]"
  /\ \A j \in 1..n : t[i + j] = "="
  /\ t[i + n + 1] = "]"

\* the first closer of level n after body is the one written after it
ClosesOnlyAtEnd(body, n) ==
  \A i \in 1..Len(body) : ~IsCloserAt(body \o Closer(n), i, n)

\* the greatest level of a long bracket
MaxLevel == 2

\* ------------------------------- SpecComments: a comment between two tokens

\* accepted texts without comments, token by token
CommentBases ==
  {<<<<"{">>, <<"1">>, <<",">>, <<"\"", "a", "\"">>, <<";">>, <<"x">>, <<"=">>,
     <<"2">>, <<"}">>>>,
   <<<<"{">>, <<"[">>, <<"3">>, <<"]">>, <<"=">>, <<"{">>, <<"n", "i", "l">>, <<"}">>,
     <<",">>, <<"-", "5">>, <<"}">>>>}

\* the most characters in the body of a comment
MaxCommentBody == 2

\* a line comment: '--', a body that opens no long bracket, a newline
LineComments ==
  {<<"-", "-">> \o b \o <<"\n">> :
     b \in {w \in Words({"c", "[", "'", " "}, MaxCommentBody) :
              ~(Len(w) >= 2 /\ w[1] = "[" /\ w[2] = "[")}}

\* a long-bracket comment of level n: '--', the opener, a body, the closer
LongComments ==
  UNION {{<<"-", "-">> \o Opener(n) \o b \o Closer(n) :
            b \in {w \in Words({"c", "]", "=", "'", "\n"}, MaxCommentBody) :
                     ClosesOnlyAtEnd(w, n)}} : n \in 0..MaxLevel}

RECURSIVE Concat(_)
Concat(ts) == IF ts = <<>> THEN <<>> ELSE ts[1] \o Concat(Tail(ts))

\* the tokens ts with comment c between the i-th and the next
WithComment(ts, i, c) ==
  Concat(SubSeq(ts, 1, i)) \o c \o Concat(SubSeq(ts, i + 1, Len(ts)))

InitComments ==
  /\ Fresh
  /\ \E ts \in CommentBases : \E i \in 1..(Len(ts) - 1) :
       \E c \in LineComments \cup LongComments :
         /\ ref = [base |-> Concat(ts), comment |-> c]
         /\ text = WithComment(ts, i, c)

SpecComments == InitComments /\ [][LoadGiven]_vars

\* ------------------------------------------------------------------ C6

\* C6: a text with a line comment or a long-bracket comment between two of
\* its tokens loads, and stores the tree of the text without the comment.
C6_CommentsInvisible ==
  op = "load" => (err = "" /\ table = call("parse", <<ref.base>>).v)

\* ------------------------------ SpecXString: one long-bracket string field

\* the most characters in a long-bracket string
MaxContent == 3

\* a long-bracket string of a level and a content that holds no closer of
\* the level, as the only field of a table, or of a table in a table
InitXString ==
  /\ Fresh
  /\ \E n \in 0..MaxLevel : \E nested \in BOOLEAN :
       \E w \in {v \in Words({"a", "]", "=", "\\", "\"", "6"}, MaxContent) :
                   ClosesOnlyAtEnd(v, n)} :
         /\ ref = [content |-> w, level |-> n, nested |-> nested]
         /\ text = (IF nested THEN <<"{", "{">> ELSE <<"{">>)
                   \o Opener(n) \o w \o Closer(n)
                   \o (IF nested THEN <<"}", "}">> ELSE <<"}">>)

SpecXString == InitXString /\ [][LoadGiven]_vars

\* ------------------------------------------------------------------ C7

\* C7: a long-bracket string that is a table's only field loads, and the
\* table is the Sequence of one string, the content character for character.
C7_XStringVerbatim ==
  op = "load" =>
    /\ err = ""
    /\ table = IF ref.nested
               THEN List(<<List(<<Str(ref.content)>>)>>)
               ELSE List(<<Str(ref.content)>>)

\* --------------------------------- SpecEscapes: one quoted string field

\* the most characters between the quotes
MaxBody == 4

\* bodies of every named escape and of three-digit codes before a digit
ExtraBodies ==
  {<<"\\", c>> : c \in {"a", "b", "f", "r", "t", "v", "'", "[", "]", "\\", "0"}}
  \cup {<<"\\", "0", "6", "5", "2">>, <<"\\", "2", "5", "5", "5">>,
        <<"\\", "2", "5", "6", "5">>, <<"a", "\\", "6", "5", "b">>}

\* from b[i] on, every backslash has a character after it and no character
\* outside an escape is the quote mark
RECURSIVE WellFormed(_, _, _)
WellFormed(b, i, mark) ==
  IF i > Len(b) THEN TRUE
  ELSE IF b[i] = "\\" THEN i + 1 <= Len(b) /\ WellFormed(b, i + 2, mark)
  ELSE b[i] # mark /\ WellFormed(b, i + 1, mark)

InitEscapes ==
  /\ Fresh
  /\ \E mark \in Quote :
       \E b \in {w \in Words({"\\", "2", "5", "6", "n", "q", "\""}, MaxBody)
                        \cup ExtraBodies : WellFormed(w, 1, mark)} :
         /\ ref = [body |-> b, mark |-> mark]
         /\ text = <<"{", mark>> \o b \o <<mark, "}">>

SpecEscapes == InitEscapes /\ [][LoadGiven]_vars

\* the number of digits, at most 3, from b[i] on
DigitsAt(b, i) ==
  IF i + 2 <= Len(b) /\ b[i + 1] \in Digit /\ b[i + 2] \in Digit THEN 3
  ELSE IF i + 1 <= Len(b) /\ b[i + 1] \in Digit THEN 2
  ELSE 1

\* the code that the n digits from b[i] on write
CodeAt(b, i, n) ==
  LET d(j) == CHOOSE x \in 0..9 : ToString(x) = b[j]
  IN IF n = 3 THEN 100 * d(i) + 10 * d(i + 1) + d(i + 2)
     ELSE IF n = 2 THEN 10 * d(i) + d(i + 1)
     ELSE d(i)

\* the control character a letter names after a backslash
ControlOf(c) ==
  CASE c = "a" -> "BEL" [] c = "b" -> "BS" [] c = "f" -> "\f" [] c = "n" -> "\n"
    [] c = "r" -> "\r" [] c = "t" -> "\t" [] c = "v" -> "VT"

\* the string a body writes, from b[i] on: big is whether a code above 255
\* is met, text the characters up to there
RECURSIVE Resolved(_, _, _)
Resolved(b, i, acc) ==
  IF i > Len(b) THEN [big |-> FALSE, text |-> acc]
  ELSE IF b[i] # "\\" THEN Resolved(b, i + 1, Append(acc, b[i]))
  ELSE IF b[i + 1] \in Digit
       THEN IF CodeAt(b, i + 1, DigitsAt(b, i + 1)) > 255
            THEN [big |-> TRUE, text |-> acc]
            ELSE Resolved(b, i + 1 + DigitsAt(b, i + 1),
                          Append(acc, chr(CodeAt(b, i + 1, DigitsAt(b, i + 1)))))
  ELSE IF b[i + 1] \in {"a", "b", "f", "n", "r", "t", "v"}
       THEN Resolved(b, i + 2, Append(acc, ControlOf(b[i + 1])))
  ELSE IF b[i + 1] \in {"\\", "'", "\"", "[", "]"}
       THEN Resolved(b, i + 2, Append(acc, b[i + 1]))
  ELSE Resolved(b, i + 2, acc \o <<"\\", b[i + 1]>>)

\* ------------------------------------------------------------------ C8

\* C8: a quoted string field loads as the string its body writes: a backslash
\* and the longest run of at most 3 digits is the character of that code, a
\* backslash and one of a b f n r t v the control character, a backslash and
\* one of \ ' " [ ] that character, a backslash and any other character both
\* characters; the load raises InvalidEscapeCode, and stores nothing, exactly
\* when a code is above 255.
C8_EscapeResolution ==
  op = "load" =>
    IF Resolved(ref.body, 1, <<>>).big
    THEN err = "InvalidEscapeCode" /\ table = old
    ELSE err = "" /\ table = List(<<Str(Resolved(ref.body, 1, <<>>).text)>>)

\* "\0652" is the string "A2": the fourth digit is an ordinary character
C8_Witness ==
  /\ op = "load"
  /\ ref.body = <<"\\", "0", "6", "5", "2">>
  /\ err = ""
  /\ table = List(<<Str(<<"A", "2">>)>>)

\* ------------------------------------ SpecNames: one field, name = value

\* the most characters before '='
MaxLhs == 3

\* what is written before '=': words of a letter, a digit, '_' and '.', and
\* numerals, quoted strings and tables
LhsTexts ==
  (Words({"x", "1", "_", "."}, MaxLhs) \ {<<>>})
  \cup {<<"+", "1">>, <<"1", "e", "1">>, <<"\"", "a", "\"">>, <<"'", "a", "'">>,
        <<"{", "}">>, <<"{", "1", "}">>, <<"n", "i", "l">>}

RhsTexts == {<<"2">>, <<"n", "i", "l">>, <<"\"", "v", "\"">>}

InitNames ==
  /\ Fresh
  /\ \E l \in LhsTexts : \E r \in RhsTexts :
       /\ ref = [lhs |-> l, rhs |-> r]
       /\ text = <<"{">> \o l \o <<"=">> \o r \o <<"}">>

SpecNames == InitNames /\ [][LoadGiven]_vars

\* a letter or '_', then letters, digits and '_'
IsIdentifier(w) ==
  /\ w # <<>>
  /\ w[1] \in Letter \cup {"_"}
  /\ \A i \in 2..Len(w) : w[i] \in Letter \cup Digit \cup {"_"}

\* the exceptions whose message is 'syntax error near ...'
SyntaxErrors ==
  {"SyntaxErrorNearExpr", "SyntaxErrorNearBracket", "SyntaxErrorNearChar",
   "SyntaxErrorNearDot", "SyntaxErrorNearExpSign", "SyntaxErrorNearExp"}

\* ------------------------------------------------------------------ C9

\* C9: a field 'lhs = rhs' whose lhs is not an identifier (a numeral, a
\* quoted string, a table, a digit-led word) is not accepted: the load
\* raises a syntax error or the invalid-name error and stores no tree; so a
\* field that is accepted has an identifier before '='.
C9_IdentifierKeys ==
  op = "load" =>
    /\ err = "" => IsIdentifier(ref.lhs)
    /\ ~IsIdentifier(ref.lhs) =>
         /\ err \in SyntaxErrors \cup {"InvalidIdentifier"}
         /\ table = old
         /\ lastGood = NoText

\* {1x=2} raises a syntax error
C9_Witness ==
  /\ op = "load"
  /\ text = <<"{", "1", "x", "=", "2", "}">>
  /\ err = "SyntaxErrorNearExpr"
  /\ table = EmptyDict

\* -------------------------------------- SpecNumbers: one numeral-like field

\* the most characters of the field
MaxNumeral == 4

\* a word of a digit, '.', the signs and 'e' as a table's only field, keyless
\* or as the value of key x
InitNumbers ==
  /\ Fresh
  /\ \E w \in Words({"1", ".", "+", "-", "e"}, MaxNumeral) : \E keyed \in BOOLEAN :
       /\ ref = [word |-> w, keyed |-> keyed]
       /\ text = (IF keyed THEN <<"{", "x", "=">> ELSE <<"{">>) \o w \o <<"}">>

SpecNumbers == InitNumbers /\ [][LoadGiven]_vars

\* 1 when w starts with a sign, else 0
SignLen(w) == IF w # <<>> /\ w[1] \in {"+", "-"} THEN 1 ELSE 0

\* '.', '+.' or '-.': a decimal point with no digit on either side
BareDot(w) == Len(w) = SignLen(w) + 1 /\ w[Len(w)] = "."

\* digits, with at most one '.', after an optional sign
IsMantissa(w) ==
  /\ \A i \in (SignLen(w) + 1)..Len(w) : w[i] \in Digit \cup {"."}
  /\ \E i \in (SignLen(w) + 1)..Len(w) : w[i] \in Digit
  /\ \A i, j \in (SignLen(w) + 1)..Len(w) : (w[i] = "." /\ w[j] = ".") => i = j

\* a mantissa, 'e' and a sign with no digit after it
EmptySignedExp(w) ==
  /\ Len(w) >= 3
  /\ w[Len(w)] \in {"+", "-"}
  /\ w[Len(w) - 1] = "e"
  /\ IsMantissa(SubSeq(w, 1, Len(w) - 2))

\* the exceptions of the number reader
MalformedNumber == {"SyntaxErrorNearDot", "SyntaxErrorNearExpSign", "SyntaxErrorNearExp"}

\* ------------------------------------------------------------------ C10

\* C10: a field that is a decimal point with no digit on either side (with
\* or without a sign), or a numeral whose exponent is a sign with no digits,
\* is rejected by the number reader.
C10_MalformedRejected ==
  (op = "load" /\ (BareDot(ref.word) \/ EmptySignedExp(ref.word))) =>
    err \in MalformedNumber

\* ------------------------- SpecTruncated: a table cut before its closing '}'

\* the keys of a field, as written before the value: none, a name and '=',
\* a bracketed index and '='
TruncKeys == {<<>>, <<"x", "=">>, <<"[", "1", "]", "=">>}

\* the values of a field: a number, a string, a name, a table, a long-bracket
\* string
TruncValues ==
  {<<"1">>, <<"\"", "a", "\"">>, <<"n", "i", "l">>, <<"{", "}">>,
   <<"[", "[", "a", "]", "]">>}

\* the most complete fields before the cut
MaxTruncFields == 1

\* the complete fields before the cut, each with the separator written after
\* it when another field or the cut's tail follows
TruncFields ==
  UNION {[1..n -> [key : TruncKeys, value : TruncValues, sep : {",", ";"}]] :
           n \in 0..MaxTruncFields}

\* the text of fields i.. of fs, a separator between two fields
RECURSIVE TruncJoin(_, _)
TruncJoin(fs, i) ==
  IF i > Len(fs) THEN <<>>
  ELSE fs[i].key \o fs[i].value
       \o (IF i < Len(fs) THEN <<fs[i].sep>> ELSE <<>>)
       \o TruncJoin(fs, i + 1)

\* where the input ends: after '{' or a complete field ("field"), after a
\* separator ("sep"), after a key and '=' ("key")
TruncTail(fs, cut, key) ==
  (IF fs # <<>> /\ cut # "field" THEN <<fs[Len(fs)].sep>> ELSE <<>>)
  \o (IF cut = "key" THEN key ELSE <<>>)

\* a table opened with '{' whose text ends at the cut, possibly after a
\* blank, possibly as the only field of an enclosing table that is cut too
InitTruncated ==
  /\ Fresh
  /\ \E fs \in TruncFields : \E cut \in {"field", "sep", "key"} :
     \E key \in TruncKeys \ {<<>>} : \E blank, nested \in BOOLEAN :
       /\ cut = "sep" => fs # <<>>
       /\ cut # "key" => key = <<"x", "=">>
       /\ ref = [fields |-> fs, cut |-> cut, key |-> key, blank |-> blank,
                 nested |-> nested]
       /\ text = (IF nested THEN <<"{">> ELSE <<>>) \o <<"{">>
                 \o TruncJoin(fs, 1) \o TruncTail(fs, cut, key)
                 \o (IF blank THEN <<" ">> ELSE <<>>)

SpecTruncated == InitTruncated /\ [][LoadGiven]_vars

\* ------------------------------------------------------------------ C11

\* C11: when the input ends before the closing '}' of a table that was
\* opened with '{' (after '{', after a complete field, after a separator, or
\* after a key and '='), reading the table fails with 'a table must end
\* with }' and with no other error.
C11_TruncatedTable == op = "load" => err = "ExpectedCloseBrace"

\* ------------- SpecAttempts: a reader stepping over '[' and '-' in a text

\* the reader's steps
ReaderOps == {"clean", "backward", "xstring", "forward", "spaces", "comments"}

\* reader.next_clean()
ReadClean ==
  /\ op \in {"new"} \cup (ReaderOps \ {"backward"})
  /\ err = ""
  /\ LET r == call("next_clean", <<text, reader>>) IN
       /\ reader' = r.rd
       /\ err' = r.err
  /\ op' = "clean"
  /\ UNCHANGED <<table, text, item, got, dumped, old, lastGood, ref, matched>>

\* __backward after next_clean returned '[' (__next_field, __next_expr)
Backward ==
  /\ op = "clean"
  /\ err = ""
  /\ reader.prevp # -1
  /\ at(text, reader.prevp) = "["
  /\ reader' = [reader EXCEPT !.index = reader.index - 1]
  /\ op' = "backward"
  /\ UNCHANGED <<table, text, err, item, got, dumped, old, lastGood, ref,
                 matched>>

\* __try_read_xstring at the '['
TryReadXString ==
  /\ op = "backward"
  /\ LET r == call("try_read_xstring", <<text, reader>>) IN
       /\ reader' = r.rd
       /\ err' = r.err
       /\ matched' = IF r.err = "" THEN r.v.ok ELSE FALSE
  /\ op' = "xstring"
  /\ UNCHANGED <<table, text, item, got, dumped, old, lastGood, ref>>

\* __forward after an attempt that did not match (__next_field)
Forward ==
  /\ op = "xstring"
  /\ err = ""
  /\ ~matched
  /\ reader' = [reader EXCEPT !.index = reader.index + 1]
  /\ op' = "forward"
  /\ UNCHANGED <<table, text, err, item, got, dumped, old, lastGood, ref,
                 matched>>

\* __swallow_spaces (next_clean)
SwallowSpaces ==
  /\ op \in {"new", "clean", "forward"}
  /\ err = ""
  /\ reader' = [reader EXCEPT !.index = swallow_spaces(text, reader.index)]
  /\ op' = "spaces"
  /\ UNCHANGED <<table, text, err, item, got, dumped, old, lastGood, ref,
                 matched>>

\* __try_swallow_comments after the spaces (next_clean)
TrySwallowComments ==
  /\ op = "spaces"
  /\ LET r == call("try_swallow_comments", <<text, reader>>) IN
       /\ reader' = r.rd
       /\ err' = r.err
       /\ matched' = IF r.err = "" THEN r.v ELSE FALSE
  /\ op' = "comments"
  /\ UNCHANGED <<table, text, item, got, dumped, old, lastGood, ref>>

\* the most characters of the generated word
MaxAttempt == 4

\* '{', possibly a blank, a word of brackets, '=', '-', a digit, and then
\* either the end of the input or a digit and '}'
InitAttempts ==
  /\ Fresh
  /\ \E w \in Words({"[", "]", "=", "-", "1"}, MaxAttempt) :
     \E blank, closed \in BOOLEAN :
       /\ ref = [word |-> w, blank |-> blank, closed |-> closed]
       /\ text = <<"{">> \o (IF blank THEN <<" ">> ELSE <<>>) \o w
                 \o (IF closed THEN <<"1", "}">> ELSE <<>>)

NextAttempts ==
  \/ LoadGiven
  \/ ReadClean
  \/ Backward
  \/ TryReadXString
  \/ Forward
  \/ SwallowSpaces
  \/ TrySwallowComments

SpecAttempts == InitAttempts /\ [][NextAttempts]_vars

\* '[', a run of '=' and '[' are the characters of s from cursor i
OpensAt(s, i) ==
  \E n \in 0..Len(s) :
    /\ i + n + 2 <= Len(s)
    /\ SubSeq(s, i + 1, i + n + 2) = Opener(n)

\* "--" are the characters of s from cursor i
DashesAt(s, i) == i + 2 <= Len(s) /\ s[i + 1] = "-" /\ s[i + 2] = "-"

\* ------------------------------------------------------------------ C12

\* C12: an attempt at a long-bracket string that finds no '[' '='* '['
\* (also when the input ends in the run of '=') returns "not matched",
\* raises nothing and leaves the cursor and the position back() returns to
\* as they were; an attempt at a comment that sees no "--" leaves the
\* cursor as it was; the same characters are then read as a bracketed index
\* or as a negative number.
C12_Step ==
  /\ (op' = "xstring" /\ ~OpensAt(text, reader.index)) =>
       (err' = "" /\ ~matched' /\ reader' = reader)
  /\ (op' = "comments" /\ ~DashesAt(text, reader.index)) =>
       (err' = "" /\ ~matched' /\ reader'.index = reader.index)
  /\ (op' = "load" /\ ref.word = <<"[", "1", "]", "=">> /\ ref.closed) =>
       (err' = "" /\ table' = Dict(<<[k |-> PyInt(1), v |-> PyInt(1)]>>))
  /\ (op' = "load" /\ ref.word = <<"-">> /\ ref.closed) =>
       (err' = "" /\ table' = List(<<PyInt(-1)>>))

C12_CommitOrRollback == [][C12_Step]_vars

\* the input ends in the run of '=' after the '[' at cursor 1: the attempt
\* has returned "not matched" and the reader is where it was
C12_Witness ==
  /\ op = "xstring"
  /\ text = <<"{", "[", "=", "=">>
  /\ err = ""
  /\ ~matched
  /\ reader = [index |-> 1, prevp |-> 1]

\* ------------------- SpecNested: a table on its own and as a field's value

\* field texts: a number, quoted strings that hold the other quote and an
\* escape, long-bracket strings (plain, of level 1, with a backslash, with a
\* quote character), keyed fields, a comment after a value, nested tables
NestPool ==
  {<<"1">>,
   <<"'", "a", "\"", "b", "'">>,
   <<"\"", "c", "\\", "n", "'", "\"">>,
   <<"[", "[", "a", "]", "]">>,
   <<"[", "=", "[", "]", "]", "]", "=", "]">>,
   <<"[", "[", "a", "\\", "b", "]", "]">>,
   <<"[", "[", "a", "\"", "b", "]", "]">>,
   <<"[", "[", "'", "]", "]">>,
   <<"x", "=", "[", "[", "q", "]", "]">>,
   <<"[", "\"", "k", "\"", "]", "=", "2">>,
   <<"n", "i", "l", " ", "-", "-", "c", "\n">>,
   <<"{", "n", "i", "l", ",", "'", "s", "'", "}">>,
   <<"{", "[", "[", "\"", "]", "]", "}">>}

\* the most fields of the table
MaxNestFields == 2

NestLists ==
  UNION {[1..n -> {[text |-> t] : t \in NestPool}] : n \in 0..MaxNestFields}

\* the table's text, loaded on its own or as the only field of a table
InitNested ==
  /\ Fresh
  /\ \E fs \in NestLists : \E nested \in BOOLEAN :
       /\ ref = [inner |-> TableText(fs), nested |-> nested]
       /\ text = IF nested THEN <<"{">> \o TableText(fs) \o <<"}">>
                 ELSE TableText(fs)

SpecNested == InitNested /\ [][LoadGiven]_vars

\* ------------------------------------------------------------------ C13

\* C13: when a table's text is accepted on its own, the text the reader
\* rebuilds for it is accepted again by next_table with the same fields, and
\* the table as a field's value evaluates to the tree it has on its own.
C13_NestedAsTopLevel ==
  (op = "load" /\ call("parse", <<ref.inner>>).err = "") =>
    LET own == call("next_table", <<ref.inner, NewReader>>)
        again == call("next_table", <<own.v.table, NewReader>>)
    IN /\ again.err = ""
       /\ again.v.fields = own.v.fields
       /\ ref.nested =>
            (err = "" /\ table = List(<<call("parse", <<ref.inner>>).v>>))

====
